---- MODULE Spec2Model ----
(***************************************************************************)
(* Model of src/app.py: the LINE webhook handler handle_message, its       *)
(* admission counter (current_requests under counter_lock), the generation *)
(* thread (get_api_response / call_xai_api), split_message and the         *)
(* delivery of the segments through reply_message and push_message.        *)
(*                                                                         *)
(* Texts are sequences of one-character strings.  One handler of the set   *)
(* Handlers is one invocation of handle_message for one inbound event.     *)
(***************************************************************************)
EXTENDS Integers, Sequences, FiniteSets, TLC

(* ------------------------------ bounds --------------------------------- *)

\* number of invocations of handle_message in one behaviour
NumHandlers == 3

\* capacities the admission counter is configured with (the source sets 5)
MaxCapacity == 2

\* segment length used by the model (the source sets 1000)
MAX_LINE_MESSAGE_LENGTH == 3

\* split_message called on its own: longest text and largest max_length tried
MaxTextLen == 7
MaxSplitLength == 4

(* ------------------------- program constants --------------------------- *)

\* len(splitted) <= 5, splitted[:5], splitted[5:]
REPLY_BATCH == 5

\* thread.join(timeout=10)
JOIN_TIMEOUT == 10

\* send_loading_animation(user_id, loading_seconds=10)
LOADING_SECONDS == 10

Handlers == 1..NumHandlers

NoOwner == 0

(* ------------------------------ texts ---------------------------------- *)

SP == " "
NL == "\n"

Whitespace == {SP, NL}

\* str.rstrip(): drop the trailing whitespace
RECURSIVE rstrip(_)
rstrip(s) ==
    IF s = <<>> THEN <<>>
    ELSE IF s[Len(s)] \in Whitespace THEN rstrip(SubSeq(s, 1, Len(s) - 1))
    ELSE s

\* str.lstrip(): drop the leading whitespace
RECURSIVE lstrip(_)
lstrip(s) ==
    IF s = <<>> THEN <<>>
    ELSE IF s[1] \in Whitespace THEN lstrip(Tail(s))
    ELSE s

\* str.strip()
strip(s) == lstrip(rstrip(s))

\* text.rfind(ch, 0, end): the highest 0-based index i < end with text[i] = ch,
\* or -1.  text[i] of the source is s[i + 1] here.
rfind(s, ch, end) ==
    LET hits == {i \in 0..(end - 1) : i < Len(s) /\ s[i + 1] = ch}
    IN  IF hits = {} THEN -1
        ELSE CHOOSE i \in hits : \A j \in hits : j <= i

\* SplitPos with the hard cut one character too far
SplitPos_TooLong(text, max_length) ==
    LET nl == rfind(text, NL, max_length)
        sp == rfind(text, SP, max_length)
    IN  IF nl # -1 THEN nl
        ELSE IF sp # -1 THEN sp
        ELSE max_length + 1

\* the cut position of one round of the while loop of split_message
SplitPos(text, max_length) ==
    LET nl == rfind(text, NL, max_length)
        sp == rfind(text, SP, max_length)
    IN  IF nl # -1 THEN nl
        ELSE IF sp # -1 THEN sp
        ELSE max_length

\* SplitLoop going on from text[split_pos + 1:], one character lost at each cut
RECURSIVE SplitLoop_SkipChar(_, _, _)
SplitLoop_SkipChar(parts, text, max_length) ==
    IF Len(text) > max_length
    THEN LET split_pos == SplitPos(text, max_length)
         IN  SplitLoop_SkipChar(Append(parts, rstrip(SubSeq(text, 1, split_pos))),
                                lstrip(SubSeq(text, split_pos + 2, Len(text))),
                                max_length)
    ELSE IF text # <<>> THEN Append(parts, text)
    ELSE parts

\* split_message(text, max_length): parts is the accumulator of the loop
RECURSIVE SplitLoop(_, _, _)
SplitLoop(parts, text, max_length) ==
    IF Len(text) > max_length
    THEN LET split_pos == SplitPos(text, max_length)
         IN  SplitLoop(Append(parts, rstrip(SubSeq(text, 1, split_pos))),
                       lstrip(SubSeq(text, split_pos + 1, Len(text))),
                       max_length)
    ELSE IF text # <<>> THEN Append(parts, text)
    ELSE parts

split_message(text, max_length) == SplitLoop(<<>>, text, max_length)

(* --------------------------- python values ----------------------------- *)

Str(t) == [type |-> "str", val |-> t]

None == [type |-> "NoneType", val |-> <<>>]

\* the two apology strings of call_xai_api, each shorter than one segment
ERROR_TEXT == <<"e", "r", "r">>
EXCEPTION_TEXT == <<"e", "x", "c">>

\* the three query strings of the shortcut, one symbol each
QUERY_KEYWORDS == {<<"q1">>, <<"q2">>, <<"q3">>}

\* texts of inbound events: a query string with surrounding blanks, a bare
\* query string and an ordinary question
EventTexts == {<<SP, "q1", NL>>, <<"q3">>, <<"a", SP, "q1">>}

\* generated answers: empty, one segment, seven segments
AnswerTexts ==
    {<<>>,
     <<"a", SP, "b">>,
     <<"a", NL, "b", NL, "c", NL, "d", NL, "e", NL, "f", NL, "g", NL, "h">>}

\* outcomes of the one HTTP call of call_xai_api
HttpOutcomes ==
    [kind : {"content"}, content : {Str(t) : t \in AnswerTexts} \cup {None}]
    \cup [kind : {"no_content", "status_error", "bad_body", "transport_error"},
          content : {None}]

\* seconds the generation call takes, below and above the join timeout
GenSeconds == {3, 60}

\* call_xai_api: the value returned for an outcome of requests.post
call_xai_api(http) ==
    CASE http.kind = "content" -> http.content
      [] http.kind = "no_content" -> Str(<<>>)
      [] http.kind = "status_error" -> Str(ERROR_TEXT)
      [] http.kind \in {"bad_body", "transport_error"} -> Str(EXCEPTION_TEXT)

\* container.get('response', default)
ContainerGet(c) == IF c = <<>> THEN Str(ERROR_TEXT) ELSE c[1]

(* ------------------------------ state ---------------------------------- *)

VARIABLES
    MAX_CONCURRENT_REQUESTS, \* the configured capacity, fixed in a behaviour
    current_requests,        \* the admission counter
    counter_lock,            \* the handler inside "with counter_lock", or NoOwner
    pc,                      \* position of each invocation of handle_message
    path,                    \* the branch the invocation took: keyword, rejected, admitted
    thread,                  \* the generation thread of each invocation
    gen_seconds,             \* how long the generation call of the invocation takes
    container,               \* the dict shared with the generation thread
    total_elapsed,           \* time.time() - start_time, -1 before it is computed
    splitted,                \* the segments of the answer
    push_idx,                \* the segment the push loop is at (1-based)
    log,                     \* the platform calls the invocation has made, in order
    acquired,                \* number of increments the invocation has made
    released,                \* number of decrements the invocation has made
    raised,                  \* an exception leaves (or is leaving) the invocation
    event_text,              \* event.message.text of the invocation
    in_text,                 \* split_message called on its own: the text argument
    in_max,                  \* split_message called on its own: the max_length argument
    out_parts,               \* split_message called on its own: the list returned
    split_pc                 \* split_message called on its own: "idle", "call", "returned"

vars == <<MAX_CONCURRENT_REQUESTS, current_requests, counter_lock, pc, path, thread,
          gen_seconds, container, total_elapsed, splitted, push_idx, log,
          acquired, released, raised, event_text, in_text, in_max, out_parts, split_pc>>

counter == <<MAX_CONCURRENT_REQUESTS, current_requests, counter_lock, acquired, released>>
gate == <<counter, path>>
locals == <<thread, gen_seconds, container, total_elapsed, splitted, push_idx>>
splitvars == <<in_text, in_max, out_parts, split_pc>>
handlervars == <<gate, locals, log, raised, event_text>>

Init ==
    /\ MAX_CONCURRENT_REQUESTS \in 1..MaxCapacity
    /\ current_requests = 0
    /\ counter_lock = NoOwner
    /\ pc = [h \in Handlers |-> "idle"]
    /\ path = [h \in Handlers |-> "none"]
    /\ thread = [h \in Handlers |-> "none"]
    /\ gen_seconds = [h \in Handlers |-> 0]
    /\ container = [h \in Handlers |-> <<>>]
    /\ total_elapsed = [h \in Handlers |-> -1]
    /\ splitted = [h \in Handlers |-> <<>>]
    /\ push_idx = [h \in Handlers |-> 0]
    /\ log = [h \in Handlers |-> <<>>]
    /\ acquired = [h \in Handlers |-> 0]
    /\ released = [h \in Handlers |-> 0]
    /\ raised = [h \in Handlers |-> FALSE]
    /\ event_text = [h \in Handlers |-> <<>>]
    /\ in_text = <<>>
    /\ in_max = MAX_LINE_MESSAGE_LENGTH
    /\ out_parts = <<>>
    /\ split_pc = "idle"

(* --------------------------- platform calls ---------------------------- *)

\* one entry of log: the call, what it carries and whether it succeeded
IndicatorCall == [op |-> "indicator", kind |-> "loading", idx |-> <<>>, ok |-> TRUE]
ReplyCall(kind, idx, ok) == [op |-> "reply", kind |-> kind, idx |-> idx, ok |-> ok]
PushCall(i, ok) == [op |-> "push", kind |-> "answer", idx |-> <<i>>, ok |-> ok]

Min(a, b) == IF a <= b THEN a ELSE b

\* FirstBatch with the batch built back to front
FirstBatch_Reversed(n) == [i \in 1..Min(n, REPLY_BATCH) |-> Min(n, REPLY_BATCH) + 1 - i]

\* FirstBatch with every segment put in the reply call
FirstBatch_Unbounded(n) == [i \in 1..n |-> i]

\* the indices of splitted[:5]
FirstBatch(n) == [i \in 1..Min(n, REPLY_BATCH) |-> i]

(* ------------------------------ actions -------------------------------- *)

\* HandleMessage comparing the text as received, without strip()
HandleMessage_NoStrip(h) ==
    /\ pc[h] = "idle"
    /\ \E text \in EventTexts :
         /\ event_text' = [event_text EXCEPT ![h] = text]
         /\ IF text \in QUERY_KEYWORDS
            THEN /\ pc' = [pc EXCEPT ![h] = "explain_reply"]
                 /\ path' = [path EXCEPT ![h] = "keyword"]
            ELSE /\ pc' = [pc EXCEPT ![h] = "acquire"]
                 /\ UNCHANGED path
    /\ UNCHANGED <<counter, locals, log, raised, splitvars>>

\* lines 154-162: the inbound event and the query-keyword test
HandleMessage(h) ==
    /\ pc[h] = "idle"
    /\ \E text \in EventTexts :
         /\ event_text' = [event_text EXCEPT ![h] = text]
         /\ IF strip(text) \in QUERY_KEYWORDS
            THEN /\ pc' = [pc EXCEPT ![h] = "explain_reply"]
                 /\ path' = [path EXCEPT ![h] = "keyword"]
            ELSE /\ pc' = [pc EXCEPT ![h] = "acquire"]
                 /\ UNCHANGED path
    /\ UNCHANGED <<counter, locals, log, raised, splitvars>>

\* lines 158-162: the fixed explanation through the reply handle, then return
ExplainReply(h) ==
    /\ pc[h] = "explain_reply"
    /\ \E ok \in BOOLEAN :
         /\ log' = [log EXCEPT ![h] = Append(@, ReplyCall("explain", <<>>, ok))]
         /\ raised' = [raised EXCEPT ![h] = ~ok]
    /\ pc' = [pc EXCEPT ![h] = "done"]
    /\ UNCHANGED <<gate, locals>>
    /\ UNCHANGED <<event_text, splitvars>>

\* line 165: with counter_lock
AcquireLock(h) ==
    /\ pc[h] = "acquire"
    /\ counter_lock = NoOwner
    /\ counter_lock' = h
    /\ pc' = [pc EXCEPT ![h] = "check"]
    /\ UNCHANGED <<MAX_CONCURRENT_REQUESTS, current_requests, acquired, released,
                   path, locals, log, raised>>
    /\ UNCHANGED <<event_text, splitvars>>

\* CheckCapacity with the test written > instead of >=
CheckCapacity_OffByOne(h) ==
    /\ pc[h] = "check"
    /\ IF current_requests > MAX_CONCURRENT_REQUESTS
       THEN /\ pc' = [pc EXCEPT ![h] = "busy_reply"]
            /\ path' = [path EXCEPT ![h] = "rejected"]
            /\ UNCHANGED <<current_requests, counter_lock, acquired>>
       ELSE /\ current_requests' = current_requests + 1
            /\ path' = [path EXCEPT ![h] = "admitted"]
            /\ acquired' = [acquired EXCEPT ![h] = @ + 1]
            /\ counter_lock' = NoOwner
            /\ pc' = [pc EXCEPT ![h] = "indicator"]
    /\ UNCHANGED <<MAX_CONCURRENT_REQUESTS, released, locals, log, raised>>
    /\ UNCHANGED <<event_text, splitvars>>

\* CheckCapacity admitting without counting the invocation
CheckCapacity_NoIncrement(h) ==
    /\ pc[h] = "check"
    /\ IF current_requests >= MAX_CONCURRENT_REQUESTS
       THEN /\ pc' = [pc EXCEPT ![h] = "busy_reply"]
            /\ path' = [path EXCEPT ![h] = "rejected"]
            /\ UNCHANGED <<counter_lock, acquired>>
       ELSE /\ path' = [path EXCEPT ![h] = "admitted"]
            /\ acquired' = [acquired EXCEPT ![h] = @ + 1]
            /\ counter_lock' = NoOwner
            /\ pc' = [pc EXCEPT ![h] = "indicator"]
    /\ UNCHANGED <<MAX_CONCURRENT_REQUESTS, current_requests, released, locals, log, raised>>
    /\ UNCHANGED <<event_text, splitvars>>

\* lines 166-173: the capacity test; the increment ends the with block
CheckCapacity(h) ==
    /\ pc[h] = "check"
    /\ IF current_requests >= MAX_CONCURRENT_REQUESTS
       THEN /\ pc' = [pc EXCEPT ![h] = "busy_reply"]
            /\ path' = [path EXCEPT ![h] = "rejected"]
            /\ UNCHANGED <<current_requests, counter_lock, acquired>>
       ELSE /\ current_requests' = current_requests + 1
            /\ path' = [path EXCEPT ![h] = "admitted"]
            /\ acquired' = [acquired EXCEPT ![h] = @ + 1]
            /\ counter_lock' = NoOwner
            /\ pc' = [pc EXCEPT ![h] = "indicator"]
    /\ UNCHANGED <<MAX_CONCURRENT_REQUESTS, released, locals, log, raised>>
    /\ UNCHANGED <<event_text, splitvars>>

\* BusyReply giving back a ticket the invocation never took
BusyReply_Decrement(h) ==
    /\ pc[h] = "busy_reply"
    /\ \E ok \in BOOLEAN :
         /\ log' = [log EXCEPT ![h] = Append(@, ReplyCall("busy", <<>>, ok))]
         /\ raised' = [raised EXCEPT ![h] = ~ok]
    /\ current_requests' = current_requests - 1
    /\ counter_lock' = NoOwner
    /\ pc' = [pc EXCEPT ![h] = "done"]
    /\ UNCHANGED <<MAX_CONCURRENT_REQUESTS, acquired, released, path, locals>>
    /\ UNCHANGED <<event_text, splitvars>>

\* lines 168-172: the busy message, sent inside the with block, then return
BusyReply(h) ==
    /\ pc[h] = "busy_reply"
    /\ \E ok \in BOOLEAN :
         /\ log' = [log EXCEPT ![h] = Append(@, ReplyCall("busy", <<>>, ok))]
         /\ raised' = [raised EXCEPT ![h] = ~ok]
    /\ counter_lock' = NoOwner
    /\ pc' = [pc EXCEPT ![h] = "done"]
    /\ UNCHANGED <<MAX_CONCURRENT_REQUESTS, current_requests, acquired, released,
                   path, locals>>
    /\ UNCHANGED <<event_text, splitvars>>

\* line 181 and lines 65-84: the indicator; its failure is caught and logged
SendLoadingAnimation(h) ==
    /\ pc[h] = "indicator"
    /\ log' = [log EXCEPT ![h] = Append(@, IndicatorCall)]
    /\ pc' = [pc EXCEPT ![h] = "start_thread"]
    /\ UNCHANGED <<gate, locals, raised>>
    /\ UNCHANGED <<event_text, splitvars>>

\* StartThread outside the try block: its exception skips the finally block
StartThread_NoFinally(h) ==
    /\ pc[h] = "start_thread"
    /\ \/ /\ \E d \in GenSeconds : gen_seconds' = [gen_seconds EXCEPT ![h] = d]
          /\ thread' = [thread EXCEPT ![h] = "running"]
          /\ pc' = [pc EXCEPT ![h] = "join"]
          /\ UNCHANGED raised
       \/ /\ raised' = [raised EXCEPT ![h] = TRUE]
          /\ pc' = [pc EXCEPT ![h] = "done"]
          /\ UNCHANGED <<thread, gen_seconds>>
    /\ UNCHANGED <<gate, container, total_elapsed, splitted, push_idx, log>>
    /\ UNCHANGED <<event_text, splitvars>>

\* lines 184-187: the generation thread is started, or Thread.start raises
StartThread(h) ==
    /\ pc[h] = "start_thread"
    /\ \/ /\ \E d \in GenSeconds : gen_seconds' = [gen_seconds EXCEPT ![h] = d]
          /\ thread' = [thread EXCEPT ![h] = "running"]
          /\ pc' = [pc EXCEPT ![h] = "join"]
          /\ UNCHANGED raised
       \/ /\ raised' = [raised EXCEPT ![h] = TRUE]
          /\ pc' = [pc EXCEPT ![h] = "finally"]
          /\ UNCHANGED <<thread, gen_seconds>>
    /\ UNCHANGED <<gate, container, total_elapsed, splitted, push_idx, log>>
    /\ UNCHANGED <<event_text, splitvars>>

\* lines 135-139: the thread stores the value of call_xai_api and ends; a call
\* slower than the join timeout ends after the handler has timed out
GetApiResponse(h) ==
    /\ thread[h] = "running"
    /\ gen_seconds[h] <= JOIN_TIMEOUT \/ pc[h] = "join_forever"
    /\ \E http \in HttpOutcomes :
         container' = [container EXCEPT ![h] = <<call_xai_api(http)>>]
    /\ thread' = [thread EXCEPT ![h] = "finished"]
    /\ UNCHANGED <<gate, pc, gen_seconds, total_elapsed, splitted, push_idx, log, raised>>
    /\ UNCHANGED <<event_text, splitvars>>

\* JoinReturn giving the ticket back as soon as the generation call is over
JoinReturn_ReleaseEarly(h) ==
    /\ pc[h] = "join"
    /\ thread[h] = "finished"
    /\ total_elapsed' = [total_elapsed EXCEPT ![h] = gen_seconds[h]]
    /\ current_requests' = current_requests - 1
    /\ released' = [released EXCEPT ![h] = @ + 1]
    /\ pc' = [pc EXCEPT ![h] = "segment"]
    /\ UNCHANGED <<MAX_CONCURRENT_REQUESTS, counter_lock, acquired, path, thread,
                   gen_seconds, container, splitted, push_idx, log, raised>>
    /\ UNCHANGED <<event_text, splitvars>>

\* lines 188-191: join(timeout=10) returns because the thread has ended
JoinReturn(h) ==
    /\ pc[h] = "join"
    /\ thread[h] = "finished"
    /\ total_elapsed' = [total_elapsed EXCEPT ![h] = gen_seconds[h]]
    /\ pc' = [pc EXCEPT ![h] = "segment"]
    /\ UNCHANGED <<gate, thread, gen_seconds, container, splitted, push_idx, log, raised>>
    /\ UNCHANGED <<event_text, splitvars>>

\* JoinTimeout giving up on the thread when the timeout expires
JoinTimeout_Abandon(h) ==
    /\ pc[h] = "join"
    /\ thread[h] = "running"
    /\ gen_seconds[h] > JOIN_TIMEOUT
    /\ total_elapsed' = [total_elapsed EXCEPT ![h] = JOIN_TIMEOUT]
    /\ pc' = [pc EXCEPT ![h] = "segment"]
    /\ UNCHANGED <<gate, thread, gen_seconds, container, splitted, push_idx, log, raised>>
    /\ UNCHANGED <<event_text, splitvars>>

\* lines 188-190: join(timeout=10) times out and the thread is alive
JoinTimeout(h) ==
    /\ pc[h] = "join"
    /\ thread[h] = "running"
    /\ gen_seconds[h] > JOIN_TIMEOUT
    /\ pc' = [pc EXCEPT ![h] = "join_forever"]
    /\ UNCHANGED <<gate, locals, log, raised>>
    /\ UNCHANGED <<event_text, splitvars>>

\* lines 190-191: the second join, without timeout
JoinForever(h) ==
    /\ pc[h] = "join_forever"
    /\ thread[h] = "finished"
    /\ total_elapsed' = [total_elapsed EXCEPT ![h] = gen_seconds[h]]
    /\ pc' = [pc EXCEPT ![h] = "segment"]
    /\ UNCHANGED <<gate, thread, gen_seconds, container, splitted, push_idx, log, raised>>
    /\ UNCHANGED <<event_text, splitvars>>

\* lines 193-197: the answer is read and segmented; len() of None raises
Segment(h) ==
    /\ pc[h] = "segment"
    /\ LET xai_response == ContainerGet(container[h])
       IN  IF xai_response.type = "str"
           THEN /\ splitted' = [splitted EXCEPT ![h] =
                                  split_message(xai_response.val, MAX_LINE_MESSAGE_LENGTH)]
                /\ pc' = [pc EXCEPT ![h] = "reply"]
                /\ UNCHANGED raised
           ELSE /\ raised' = [raised EXCEPT ![h] = TRUE]
                /\ pc' = [pc EXCEPT ![h] = "finally"]
                /\ UNCHANGED splitted
    /\ UNCHANGED <<gate, thread, gen_seconds, container, total_elapsed, push_idx, log>>
    /\ UNCHANGED <<event_text, splitvars>>

\* lines 198-205: at most five segments, all in one reply call
ReplyAll(h) ==
    /\ pc[h] = "reply"
    /\ Len(splitted[h]) <= REPLY_BATCH
    /\ \E ok \in BOOLEAN :
         log' = [log EXCEPT ![h] =
                   Append(@, ReplyCall("answer", FirstBatch(Len(splitted[h])), ok))]
    /\ pc' = [pc EXCEPT ![h] = "finally"]
    /\ UNCHANGED <<gate, locals, raised>>
    /\ UNCHANGED <<event_text, splitvars>>

\* lines 206-209 and 215-216: the first five segments in one reply call; its
\* failure leaves the try block
ReplyFirstFive(h) ==
    /\ pc[h] = "reply"
    /\ Len(splitted[h]) > REPLY_BATCH
    /\ \E ok \in BOOLEAN :
         /\ log' = [log EXCEPT ![h] =
                      Append(@, ReplyCall("answer", FirstBatch(Len(splitted[h])), ok))]
         /\ IF ok
            THEN /\ pc' = [pc EXCEPT ![h] = "push"]
                 /\ push_idx' = [push_idx EXCEPT ![h] = REPLY_BATCH + 1]
            ELSE /\ pc' = [pc EXCEPT ![h] = "finally"]
                 /\ UNCHANGED push_idx
    /\ UNCHANGED <<gate, thread, gen_seconds, container, total_elapsed, splitted, raised>>
    /\ UNCHANGED <<event_text, splitvars>>

\* lines 210-216: one round of the push loop; a failure leaves the try block
PushMessage(h) ==
    /\ pc[h] = "push"
    /\ \E ok \in BOOLEAN :
         /\ log' = [log EXCEPT ![h] = Append(@, PushCall(push_idx[h], ok))]
         /\ IF ok /\ push_idx[h] < Len(splitted[h])
            THEN /\ push_idx' = [push_idx EXCEPT ![h] = @ + 1]
                 /\ UNCHANGED pc
            ELSE /\ pc' = [pc EXCEPT ![h] = "finally"]
                 /\ UNCHANGED push_idx
    /\ UNCHANGED <<gate, thread, gen_seconds, container, total_elapsed, splitted, raised>>
    /\ UNCHANGED <<event_text, splitvars>>

\* lines 218-219: the finally block enters with counter_lock
FinallyLock(h) ==
    /\ pc[h] = "finally"
    /\ counter_lock = NoOwner
    /\ counter_lock' = h
    /\ pc' = [pc EXCEPT ![h] = "release"]
    /\ UNCHANGED <<MAX_CONCURRENT_REQUESTS, current_requests, acquired, released,
                   path, locals, log, raised>>
    /\ UNCHANGED <<event_text, splitvars>>

\* line 220: the decrement; the invocation returns and its locals are dropped
Decrement(h) ==
    /\ pc[h] = "release"
    /\ current_requests' = current_requests - 1
    /\ released' = [released EXCEPT ![h] = @ + 1]
    /\ counter_lock' = NoOwner
    /\ pc' = [pc EXCEPT ![h] = "done"]
    /\ gen_seconds' = [gen_seconds EXCEPT ![h] = 0]
    /\ container' = [container EXCEPT ![h] = <<>>]
    /\ total_elapsed' = [total_elapsed EXCEPT ![h] = -1]
    /\ splitted' = [splitted EXCEPT ![h] = <<>>]
    /\ push_idx' = [push_idx EXCEPT ![h] = 0]
    /\ UNCHANGED <<MAX_CONCURRENT_REQUESTS, acquired, path, thread, log, raised>>
    /\ UNCHANGED <<event_text, splitvars>>

Next ==
    \E h \in Handlers :
        \/ HandleMessage(h)
        \/ ExplainReply(h)
        \/ AcquireLock(h)
        \/ CheckCapacity(h)
        \/ BusyReply(h)
        \/ SendLoadingAnimation(h)
        \/ StartThread(h)
        \/ GetApiResponse(h)
        \/ JoinReturn(h)
        \/ JoinTimeout(h)
        \/ JoinForever(h)
        \/ Segment(h)
        \/ ReplyAll(h)
        \/ ReplyFirstFive(h)
        \/ PushMessage(h)
        \/ FinallyLock(h)
        \/ Decrement(h)

Spec == Init /\ [][Next]_vars

\* the steps of one invocation and of its generation thread
HandlerStep(h) ==
    \/ HandleMessage(h) \/ ExplainReply(h) \/ AcquireLock(h) \/ CheckCapacity(h)
    \/ BusyReply(h) \/ SendLoadingAnimation(h) \/ StartThread(h) \/ GetApiResponse(h)
    \/ JoinReturn(h) \/ JoinTimeout(h) \/ JoinForever(h) \/ Segment(h) \/ ReplyAll(h)
    \/ ReplyFirstFive(h) \/ PushMessage(h) \/ FinallyLock(h) \/ Decrement(h)

\* every thread that can run is scheduled, and every call returns; TLC decides
\* properties under FairSpec with two handlers and answers of at most two segments
FairSpec == Spec /\ \A h \in Handlers : WF_vars(HandlerStep(h))

(* -------------------- split_message called on its own ------------------ *)

\* the backquote character, written # here
BACKQUOTE == "#"

Alphabet == {"a", SP, NL, BACKQUOTE}

\* every text over Alphabet of at most MaxTextLen characters
SplitTexts == UNION {[1..n -> Alphabet] : n \in 0..MaxTextLen}

\* "A" * 1500
LongRun == [i \in 1..1500 |-> "A"]

InitSplit ==
    /\ MAX_CONCURRENT_REQUESTS = MaxCapacity
    /\ current_requests = 0
    /\ counter_lock = NoOwner
    /\ pc = [h \in Handlers |-> "idle"]
    /\ path = [h \in Handlers |-> "none"]
    /\ thread = [h \in Handlers |-> "none"]
    /\ gen_seconds = [h \in Handlers |-> 0]
    /\ container = [h \in Handlers |-> <<>>]
    /\ total_elapsed = [h \in Handlers |-> -1]
    /\ splitted = [h \in Handlers |-> <<>>]
    /\ push_idx = [h \in Handlers |-> 0]
    /\ log = [h \in Handlers |-> <<>>]
    /\ acquired = [h \in Handlers |-> 0]
    /\ released = [h \in Handlers |-> 0]
    /\ raised = [h \in Handlers |-> FALSE]
    /\ event_text = [h \in Handlers |-> <<>>]
    /\ \/ in_text \in SplitTexts /\ in_max \in 1..MaxSplitLength
       \/ in_text = LongRun /\ in_max = 700
    /\ out_parts = <<>>
    /\ split_pc = "call"

\* lines 117-133: one call of split_message
SplitMessage ==
    /\ split_pc = "call"
    /\ out_parts' = split_message(in_text, in_max)
    /\ split_pc' = "returned"
    /\ UNCHANGED <<handlervars, pc, in_text, in_max>>

NextSplit == SplitMessage

SpecSplit == InitSplit /\ [][NextSplit]_vars

TypeOK ==
    /\ MAX_CONCURRENT_REQUESTS \in 1..MaxCapacity
    /\ current_requests \in Int
    /\ counter_lock \in Handlers \cup {NoOwner}

(* ======================= properties of the handler ===================== *)

\* the invocation is between its entry and its return
InFlight(h) == pc[h] \notin {"idle", "done"}

\* the invocation has incremented the counter and not yet decremented it
Holding(h) == acquired[h] > released[h]

\* positions inside the try block of an admitted invocation
BodyPcs == {"indicator", "start_thread", "join", "join_forever", "segment", "reply", "push"}

\* the invocations that have been through the capacity test
Admitted == {h \in Handlers : path[h] = "admitted"}
Rejected == {h \in Handlers : path[h] = "rejected"}

\* C1: an invocation that incremented current_requests decrements it exactly
\* once before it returns, on the normal and on the exception paths; one that
\* was rejected or took the query-keyword shortcut never decrements it; with
\* no invocation in flight current_requests is 0.
C1_TicketReleasedExactlyOnce ==
    /\ \A h \in Handlers :
         /\ released[h] <= acquired[h]
         /\ acquired[h] <= 1
         /\ pc[h] = "done" => released[h] = acquired[h]
         /\ path[h] \in {"keyword", "rejected"} => released[h] = 0
         /\ path[h] = "admitted" /\ pc[h] = "done" => released[h] = 1
    /\ (\A h \in Handlers : ~InFlight(h)) => current_requests = 0

\* one invocation returned normally after its pushes, one left by an exception
\* and one was rejected; the two admitted ones have decremented once
C1_Witness ==
    \E h1, h2, h3 \in Handlers :
        /\ pc[h1] = "done" /\ pc[h2] = "done" /\ pc[h3] = "done"
        /\ path[h1] = "admitted" /\ ~raised[h1] /\ released[h1] = 1
        /\ \E i \in 1..Len(log[h1]) : log[h1][i].op = "push"
        /\ path[h2] = "admitted" /\ raised[h2] /\ released[h2] = 1
        /\ path[h3] = "rejected" /\ released[h3] = 0
        /\ current_requests = 0

\* C2: 0 <= current_requests <= MAX_CONCURRENT_REQUESTS, current_requests is
\* the number of invocations holding a ticket, and the capacity test admits
\* exactly when current_requests < MAX_CONCURRENT_REQUESTS and otherwise goes
\* straight to the busy reply.
C2_CounterBounded ==
    /\ [](/\ 0 <= current_requests
          /\ current_requests <= MAX_CONCURRENT_REQUESTS
          /\ current_requests = Cardinality({h \in Handlers : Holding(h)}))
    /\ [][\A h \in Handlers :
            pc[h] = "check" /\ pc'[h] # "check" =>
                /\ (acquired'[h] = acquired[h] + 1) <=>
                       (current_requests < MAX_CONCURRENT_REQUESTS)
                /\ (acquired'[h] = acquired[h]) <=> (pc'[h] = "busy_reply")
                /\ pc'[h] \in {"busy_reply", "indicator"}]_vars

\* capacity 1: one invocation has released, one was rejected and a third one
\* holds the ticket now
C2_Witness ==
    /\ MAX_CONCURRENT_REQUESTS = 1
    /\ \E h1, h2, h3 \in Handlers :
        /\ released[h1] = 1
        /\ path[h2] = "rejected"
        /\ Holding(h3)
        /\ current_requests = 1

\* C3: when k > MAX_CONCURRENT_REQUESTS invocations have been through the
\* capacity test and none has released, exactly k - MAX_CONCURRENT_REQUESTS
\* of them were rejected and MAX_CONCURRENT_REQUESTS proceed in the try block.
C3_ExactlyKMinusCRejected ==
    LET k == Cardinality(Admitted \cup Rejected)
    IN  (/\ \A h \in Handlers : released[h] = 0
         /\ k > MAX_CONCURRENT_REQUESTS)
        => /\ Cardinality(Rejected) = k - MAX_CONCURRENT_REQUESTS
           /\ Cardinality(Admitted) = MAX_CONCURRENT_REQUESTS
           /\ \A h \in Admitted : pc[h] \in BodyPcs \cup {"finally", "release"}

\* three invocations met a gate of capacity 1 before any release: two rejected
C3_Witness ==
    /\ MAX_CONCURRENT_REQUESTS = 1
    /\ \A h \in Handlers : released[h] = 0
    /\ Cardinality(Rejected) = 2
    /\ Cardinality(Admitted) = 1

\* C4: a rejected invocation makes one call, the busy reply, and returns: no
\* indicator, no generation thread, no push, and current_requests is left as
\* it was.
C4_RejectedOnlyRepliesBusy ==
    /\ [](\A h \in Rejected :
            /\ acquired[h] = 0
            /\ thread[h] = "none"
            /\ container[h] = <<>>
            /\ \A i \in 1..Len(log[h]) : log[h][i].op = "reply" /\ log[h][i].kind = "busy"
            /\ Len(log[h]) = (IF pc[h] = "done" THEN 1 ELSE 0)
            /\ pc[h] \in {"busy_reply", "done"})
    /\ [][\A h \in Handlers :
            pc[h] \in {"check", "busy_reply"} /\ pc'[h] \in {"busy_reply", "done"}
                => current_requests' = current_requests]_vars

\* a rejected invocation has returned after its busy reply while the ticket
\* holder is still in its try block
C4_Witness ==
    \E h \in Rejected :
        /\ pc[h] = "done"
        /\ log[h] = <<ReplyCall("busy", <<>>, TRUE)>>
        /\ current_requests = MAX_CONCURRENT_REQUESTS

(* ----------------------------- delivery -------------------------------- *)

\* the reply and push calls of the invocation that carry segments of the answer
AnswerCalls(h) == SelectSeq(log[h], LAMBDA e : e.kind = "answer")

\* the segment indices of a sequence of calls, in the order they were sent
RECURSIVE SentIdx(_)
SentIdx(calls) == IF calls = <<>> THEN <<>> ELSE Head(calls).idx \o SentIdx(Tail(calls))

\* a call without its result
Attempt(e) == <<e.op, e.idx>>

\* the invocation is past delivery, at its finally block, with no exception
Delivered(h) == pc[h] \in {"finally", "release"} /\ ~raised[h]

\* C5 as stated: the ticket of an admitted invocation is released once the
\* generation call is over, before segmentation and before any reply or push.
C5_ReleasedBeforeDelivery ==
    \A h \in Admitted :
        (pc[h] \in {"segment", "reply", "push"} \/ AnswerCalls(h) # <<>>) => released[h] = 1

\* C5, amended: an admitted invocation holds its ticket through generation,
\* segmentation and delivery; every call it makes is made while it holds the
\* ticket, and the decrement is its last step, in the finally block.
C5_TicketHeldUntilDelivered ==
    /\ [](\A h \in Admitted :
            /\ pc[h] \in BodyPcs \cup {"finally", "release"} => Holding(h)
            /\ released[h] = 1 => pc[h] = "done")
    /\ [][\A h \in Handlers :
            /\ (path[h] = "admitted" /\ log'[h] # log[h]) => (Holding(h) /\ Holding(h)')
            /\ released'[h] # released[h] => (pc[h] = "release" /\ pc'[h] = "done")]_vars

\* capacity 1: the holder is in its push loop, still holding the ticket, and
\* a second invocation has been rejected meanwhile
C5_Witness ==
    /\ current_requests = 1
    /\ \E h \in Admitted :
        /\ pc[h] = "push"
        /\ Holding(h)
        /\ Len(AnswerCalls(h)) >= 2
        /\ \E g \in Rejected : pc[g] = "busy_reply"

\* C6 as stated: counter_lock is held only around the test, the increment and
\* the decrement, never during a platform call.
C6_NoCallUnderLock ==
    \A h \in Handlers : counter_lock = h => pc[h] \in {"check", "release"}

\* C7 as stated: when the elapsed time exceeds 50 seconds the reply handle is
\* not used and every segment goes through push.
C7_SlowAnswerPushedOnly ==
    \A h \in Admitted :
        total_elapsed[h] > 50 =>
            /\ \A i \in 1..Len(log[h]) : log[h][i].op # "reply"
            /\ Delivered(h) =>
                 \A k \in 1..Len(splitted[h]) :
                     \E i \in 1..Len(log[h]) : log[h][i].op = "push" /\ log[h][i].idx = <<k>>

\* C8 as stated: with elapsed time at most 50 seconds and n segments, one
\* reply call carries segments 1..min(n, 5) and each of the segments 6..n has
\* its own push call, in that order, nothing twice and nothing missing.
C8_BatchThenPushes ==
    \A h \in Admitted :
        (Delivered(h) /\ total_elapsed[h] \in 0..50) =>
            LET n == Len(splitted[h])
                calls == AnswerCalls(h)
                rest == IF n > 5 THEN n - 5 ELSE 0
            IN  /\ Len(calls) = 1 + rest
                /\ Attempt(calls[1]) = <<"reply", [i \in 1..(IF n < 5 THEN n ELSE 5) |-> i]>>
                /\ \A j \in 1..rest : Attempt(calls[1 + j]) = <<"push", <<5 + j>>>>

\* C9 as stated: a failed send does not stop the sends after it: with more
\* than 5 segments every segment after the fifth is attempted through push.
C9_FailureDoesNotAbort ==
    \A h \in Admitted :
        (Delivered(h) /\ Len(splitted[h]) > 5) =>
            \A k \in 6..Len(splitted[h]) :
                \E i \in 1..Len(log[h]) : log[h][i].op = "push" /\ log[h][i].idx = <<k>>

\* the indicator precedes every reply of the invocation
IndicatorFirst(h) ==
    \A i \in 1..Len(log[h]) :
        log[h][i].op = "reply" => \E j \in 1..(i - 1) : log[h][j].op = "indicator"

\* the segments leave in their order: indices 1, 2, 3, ... over the calls
InOrder(h) ==
    LET sent == SentIdx(AnswerCalls(h))
    IN  sent = [i \in 1..Len(sent) |-> i]

\* C10 as stated: for every inbound event the indicator is signalled before
\* any reply of that event, and the segments leave in their original order.
C10_IndicatorBeforeReply ==
    \A h \in Handlers : IndicatorFirst(h) /\ InOrder(h)

\* C10, amended: for every admitted invocation the indicator is signalled
\* before its reply, and the segments leave in their original order over the
\* reply batch and the pushes; the keyword and busy replies have no indicator.
C10_AdmittedIndicatorBeforeReply ==
    /\ \A h \in Admitted : IndicatorFirst(h) /\ InOrder(h)
    /\ \A h \in Handlers \ Admitted : \A i \in 1..Len(log[h]) : log[h][i].op = "reply"

\* seven segments: the indicator, the batch of five, then segments 6 and 7
C10_Witness ==
    \E h \in Admitted :
        log[h] = <<IndicatorCall,
                   ReplyCall("answer", <<1, 2, 3, 4, 5>>, TRUE),
                   PushCall(6, TRUE),
                   PushCall(7, TRUE)>>

(* ------------------------- timing and generation ----------------------- *)

\* C11 as stated: the first reply or push of an admitted invocation is sent
\* no earlier than the indicator's 10 seconds after the start time.
C11_NotBeforeMinDuration ==
    \A h \in Admitted :
        (InFlight(h) /\ SentIdx(AnswerCalls(h)) # <<>>) => total_elapsed[h] >= LOADING_SECONDS

\* C12 as stated, its delivery part: once the generation call has returned,
\* whatever its outcome, the invocation segments and delivers a text; it never
\* reaches its end without a reply call for the answer.
C12_GenerationAlwaysDelivered ==
    \A h \in Admitted :
        (thread[h] = "finished" /\ pc[h] \in {"finally", "release", "done"})
            => (~raised[h] /\ AnswerCalls(h) # <<>>)

\* C12, its termination part: every admitted invocation reaches its end with
\* its ticket released.
C12_EventuallyDone ==
    \A h \in Handlers :
        (path[h] = "admitted") ~> (pc[h] = "done" /\ released[h] = 1)

\* C16 as stated: call_xai_api returns a text for every outcome of the HTTP
\* call, so the value the generation thread stores is a text.
C16_AlwaysText ==
    \A h \in Handlers :
        (thread[h] = "finished" /\ pc[h] # "done")
            => (container[h] # <<>> /\ container[h][1].type = "str")

\* the number of messages a reply call carries
MessageCount(e) == IF e.kind = "answer" THEN Len(e.idx) ELSE 1

\* the reply calls of the invocation
ReplyCalls(h) == SelectSeq(log[h], LAMBDA e : e.op = "reply")

\* C17: on every path the reply handle of an event is used in at most one
\* reply call, and that call carries at most 5 messages.
C17_ReplyHandleOnce ==
    \A h \in Handlers :
        /\ Len(ReplyCalls(h)) <= 1
        /\ \A i \in 1..Len(ReplyCalls(h)) : MessageCount(ReplyCalls(h)[i]) <= 5

\* an answer of more than five segments: one reply call with five messages,
\* the rest pushed; a keyword reply and a busy reply beside it
C17_Witness ==
    \E h, g, k \in Handlers :
        /\ pc[h] = "done" /\ path[h] = "admitted"
        /\ Len(ReplyCalls(h)) = 1 /\ MessageCount(ReplyCalls(h)[1]) = 5
        /\ \E i \in 1..Len(log[h]) : log[h][i].op = "push"
        /\ path[g] = "keyword" /\ Len(ReplyCalls(g)) = 1
        /\ path[k] = "rejected" /\ Len(ReplyCalls(k)) = 1

\* C18: segmentation and delivery begin only after the generation thread has
\* ended, also past the join timeout; the text segmented is the value the
\* thread stored; no thread runs on after its invocation released the ticket.
C18_NeverAbandonsThread ==
    \A h \in Handlers :
        /\ thread[h] = "running" => pc[h] \in {"join", "join_forever"}
        /\ pc[h] \in {"segment", "reply", "push"} =>
               (thread[h] = "finished" /\ container[h] # <<>>)
        /\ pc[h] \in {"reply", "push"} =>
               splitted[h] = split_message(container[h][1].val, MAX_LINE_MESSAGE_LENGTH)
        /\ released[h] = 1 => thread[h] # "running"

\* a generation call of 60 seconds: the handler timed out, waited on, and now
\* delivers the seven segments of the stored answer
C18_Witness ==
    \E h \in Handlers :
        /\ gen_seconds[h] > JOIN_TIMEOUT
        /\ total_elapsed[h] > JOIN_TIMEOUT
        /\ pc[h] = "push"
        /\ thread[h] = "finished"
        /\ Len(splitted[h]) = 7

\* C19: a message whose stripped text is a query string takes the shortcut:
\* one reply with the explanation, no use of counter_lock or current_requests,
\* no indicator, thread or push; the reply is not held up by a full gate or a
\* held lock.
C19_KeywordShortcut ==
    /\ [](\A h \in Handlers :
            /\ pc[h] # "idle" =>
                 ((strip(event_text[h]) \in QUERY_KEYWORDS) <=> (path[h] = "keyword"))
            /\ path[h] = "keyword" =>
                 /\ pc[h] \in {"explain_reply", "done"}
                 /\ acquired[h] = 0 /\ released[h] = 0
                 /\ counter_lock # h
                 /\ thread[h] = "none" /\ container[h] = <<>>
                 /\ Len(log[h]) = (IF pc[h] = "done" THEN 1 ELSE 0)
                 /\ \A i \in 1..Len(log[h]) :
                        log[h][i].op = "reply" /\ log[h][i].kind = "explain"
                 /\ pc[h] = "explain_reply" => ENABLED ExplainReply(h))
    /\ [][\A h \in Handlers :
            (path'[h] = "keyword" /\ pc'[h] # pc[h]) =>
                /\ current_requests' = current_requests
                /\ counter_lock' = counter_lock
                /\ acquired' = acquired]_vars

\* the query string came with blanks around it; it was answered while the
\* gate was full and another invocation held counter_lock for its busy reply
C19_Witness ==
    \E h, g \in Handlers :
        /\ event_text[h] = <<SP, "q1", NL>>
        /\ path[h] = "keyword" /\ pc[h] = "done"
        /\ log[h] = <<ReplyCall("explain", <<>>, TRUE)>>
        /\ current_requests = MAX_CONCURRENT_REQUESTS
        /\ pc[g] = "busy_reply" /\ counter_lock = g

(* ------------------------ split_message on its own --------------------- *)

Returned == split_pc = "returned"

\* the characters of a text that are not whitespace, in order
NonWs(s) == SelectSeq(s, LAMBDA c : c \notin Whitespace)

AllWs(s) == \A i \in 1..Len(s) : s[i] \in Whitespace

\* "".join(parts)
RECURSIVE Concat(_)
Concat(parts) == IF parts = <<>> THEN <<>> ELSE Head(parts) \o Concat(Tail(parts))

\* text is the parts in order with a whitespace-only string between each two
\* consecutive parts and, when trailing, one more after the last part
RECURSIVE Rejoins(_, _, _)
Rejoins(text, parts, trailing) ==
    IF parts = <<>> THEN text = <<>>
    ELSE LET p == Head(parts)
             rest == SubSeq(text, Len(p) + 1, Len(text))
         IN  /\ Len(p) <= Len(text)
             /\ SubSeq(text, 1, Len(p)) = p
             /\ IF Tail(parts) = <<>>
                THEN IF trailing THEN AllWs(rest) ELSE rest = <<>>
                ELSE \E k \in 0..Len(rest) :
                        /\ AllWs(SubSeq(rest, 1, k))
                        /\ Rejoins(SubSeq(rest, k + 1, Len(rest)), Tail(parts), trailing)

\* text.count of the fence marker, three backquotes
RECURSIVE FenceCount(_)
FenceCount(s) ==
    IF Len(s) < 3 THEN 0
    ELSE IF s[1] = BACKQUOTE /\ s[2] = BACKQUOTE /\ s[3] = BACKQUOTE
         THEN 1 + FenceCount(SubSeq(s, 4, Len(s)))
         ELSE FenceCount(Tail(s))

\* C13: every segment split_message returns has at most max_length
\* characters (a token longer than max_length is cut hard, so no segment is
\* longer even then); 1500 "A" with max_length 700 give 3 segments.
C13_SegmentsWithinMaxLength ==
    Returned =>
        /\ \A i \in 1..Len(out_parts) : Len(out_parts[i]) <= in_max
        /\ (Len(in_text) = 1500 /\ in_max = 700) => Len(out_parts) = 3

\* the run of 1500 "A" cut hard into 700, 700 and 100 characters
C13_Witness ==
    /\ Returned
    /\ Len(in_text) = 1500 /\ in_max = 700
    /\ Len(out_parts) = 3
    /\ Len(out_parts[1]) = 700 /\ Len(out_parts[2]) = 700 /\ Len(out_parts[3]) = 100

\* C14 as stated: the input is the segments in order with a whitespace-only
\* string re-inserted at each boundary between consecutive segments, so the
\* non-whitespace characters of the segments are those of the input, in order.
C14_RejoinsBetweenSegments ==
    Returned =>
        /\ Rejoins(in_text, out_parts, FALSE)
        /\ NonWs(Concat(out_parts)) = NonWs(in_text)

\* C14, amended: the input is the segments in order with a whitespace-only
\* string re-inserted at each boundary between consecutive segments and after
\* the last segment; the non-whitespace characters are kept, in order.
C14_RejoinsWithTrailing ==
    Returned =>
        /\ Rejoins(in_text, out_parts, TRUE)
        /\ NonWs(Concat(out_parts)) = NonWs(in_text)

\* two segments or more, whitespace dropped at a cut and after the last segment
C14_Witness ==
    /\ Returned
    /\ Len(out_parts) >= 2
    /\ NonWs(in_text) # <<>>
    /\ Len(Concat(out_parts)) + 2 <= Len(in_text)
    /\ ~Rejoins(in_text, out_parts, FALSE)

\* C15 as stated, for a text whose fences are balanced: every segment holds
\* an even number of fence markers.
C15_FencesBalanced ==
    (Returned /\ FenceCount(in_text) % 2 = 0) =>
        \A i \in 1..Len(out_parts) : FenceCount(out_parts[i]) % 2 = 0

\* C20 as stated: split_message returns no empty segment.
C20_NoEmptySegment ==
    Returned => \A i \in 1..Len(out_parts) : out_parts[i] # <<>>

====
